---- MODULE Spec2Model ----
(***************************************************************************)
(* UsersService (src/users/users.service.ts) over a Prisma store: users,   *)
(* their many-to-many association with courses, password hashing and the   *)
(* course curriculum projection.  Every await on the store is one step.    *)
(***************************************************************************)
EXTENDS Integers, Sequences, FiniteSets, TLC

\* Number of user ids the store ever hands out (ids are never reused).
MaxUsers == 2

-----------------------------------------------------------------------------
(* Enumerations and errors *)

Roles == {"ADMIN", "INSTRUCTOR", "STUDENT"}

UserStatus == {"ACTIVE", "INACTIVE", "BANNED"}

\* Column defaults of the User table (the Prisma schema).
DefaultRole == "STUDENT"

DefaultStatus == "ACTIVE"

\* bcrypt work factor.
BcryptCost == 10

NoError == "none"

\* The ValidationPipe's rejection of a DTO (the service is not invoked).
BadRequest == "BadRequestException"

\* Thrown by the service itself.
NotFoundException == "NotFoundException"

\* Prisma P2025 on update/delete of a record that does not exist.
RecordNotFound == "P2025 record to update or delete not found"

\* Prisma P2025 on connect/set naming a related record that does not exist.
RelatedRecordNotFound == "P2025 related records not found"

\* Prisma P2002.
UniqueConstraintFailed == "P2002 unique constraint failed"

\* Prisma's rejection of an argument that is no member of the column's enum.
PrismaValidationError == "PrismaClientValidationError"

-----------------------------------------------------------------------------
(* Objects: a DTO or a data object is a function from its present keys *)

EmptyObject == [k \in {} |-> ""]

Has(obj, k) == k \in DOMAIN obj

Omit(obj, keys) == [k \in (DOMAIN obj) \ keys |-> obj[k]]

\* { ...a, ...b }: the later spread wins.
Spread(a, b) == b @@ a

Range(seq) == {seq[i] : i \in 1..Len(seq)}

\* All objects of D, each also extended by key k with a value of V.
WithField(D, k, V) == D \cup {Spread(d, k :> v) : d \in D, v \in V}

\* A string is a sequence of tokens; the empty string is <<>>.
EmptyString == <<>>

Truthy(str) == str # EmptyString

-----------------------------------------------------------------------------
(* The course catalogue (owned by another module, read only here) *)

Lesson(id, order) == [id |-> id, title |-> id, duration |-> 5, order |-> order]

Module(id, order, lessons) ==
    [id |-> id, title |-> id, order |-> order, lessons |-> lessons]

Course(id, createdAt, modules) ==
    [id |-> id, title |-> id, description |-> id, createdAt |-> createdAt,
     modules |-> modules]

Catalogue ==
    [c1 |-> Course("c1", 1, {Module("m1", 2, {Lesson("l1", 2), Lesson("l2", 1)}),
                             Module("m2", 1, {})}),
     c2 |-> Course("c2", 3, {Module("m3", 1, {Lesson("l3", 1), Lesson("l4", 1)})}),
     c3 |-> Course("c3", 2, {})]

CourseIds == DOMAIN Catalogue

-----------------------------------------------------------------------------
(* bcrypt *)

\* bcrypt.hash(plain, 10): version, cost, the random salt, and the digest of
\* (salt, plain), kept symbolic.
BcryptHash(plain, salt) == <<"$2a$", BcryptCost, salt>> \o plain

-----------------------------------------------------------------------------
(* The Prisma store.  users is the User table with its rows of the implicit
   join table folded in: a function from the ids in use to user records. *)

\* select: { id, name, email, status, createdAt, role, assignedCourses }
CreateSelect == {"id", "name", "email", "status", "createdAt", "role", "assignedCourses"}

FindAllSelect == {"id", "name", "email", "status", "createdAt", "role", "assignedCourses"}

FindOneSelect == {"id", "name", "email", "status", "createdAt", "role", "assignedCourses"}

FindByEmailSelect == {"id", "name", "email", "password", "status", "role", "assignedCourses"}

\* Mutant of UpdateSelect: the stored row is returned whole.
UpdateSelectWithPassword ==
    {"id", "name", "email", "password", "status", "createdAt", "role", "assignedCourses"}

UpdateSelect == {"id", "name", "email", "status", "createdAt", "role", "assignedCourses"}

UpdateStatusSelect == {"id", "name", "email", "status", "createdAt", "role"}

RemoveSelect == {"id", "name", "email", "status", "createdAt", "role"}

\* assignedCourses: { select: { id: true, title: true } }
CourseRef(cid) == [id |-> cid, title |-> Catalogue[cid].title]

\* The fields of user u that select names.
Project(u, select) ==
    [f \in select |->
        IF f = "assignedCourses" THEN {CourseRef(cid) : cid \in u.assignedCourses}
        ELSE u[f]]

UserExists(us, id) == id \in DOMAIN us

EmailTaken(us, email, exceptId) ==
    \E o \in DOMAIN us : o # exceptId /\ us[o].email = email

\* The ids a nested connect / set names.
RelationIds(data) ==
    IF ~Has(data, "assignedCourses") THEN {}
    ELSE IF Has(data.assignedCourses, "connect") THEN data.assignedCourses.connect
    ELSE data.assignedCourses.set

EnumsValid(data) ==
    /\ Has(data, "status") => data.status \in UserStatus
    /\ Has(data, "role") => data.role \in Roles

\* prisma.user.create({ data }): the new row gets id and createdAt from the
\* store; the insert and its nested connect are one transaction.
PrismaCreate(us, id, data) ==
    IF ~EnumsValid(data)
    THEN [err |-> PrismaValidationError, users |-> us]
    ELSE IF EmailTaken(us, data.email, id)
    THEN [err |-> UniqueConstraintFailed, users |-> us]
    ELSE IF ~(RelationIds(data) \subseteq CourseIds)
    THEN [err |-> RelatedRecordNotFound, users |-> us]
    ELSE [err |-> NoError,
          users |-> (id :> [id |-> id,
                           name |-> data.name,
                           email |-> data.email,
                           password |-> data.password,
                           role |-> IF Has(data, "role") THEN data.role ELSE DefaultRole,
                           status |-> DefaultStatus,
                           createdAt |-> id,
                           assignedCourses |-> RelationIds(data)]) @@ us]

\* The row of us[id] after the scalar fields and the nested set of data.
UpdatedRow(u, data) ==
    [f \in DOMAIN u |->
        IF f = "assignedCourses"
        THEN (IF Has(data, "assignedCourses") THEN RelationIds(data) ELSE u[f])
        ELSE IF Has(data, f) THEN data[f]
        ELSE u[f]]

\* Mutant of PrismaUpdate: the scalar write is kept when the nested set fails.
PrismaUpdateNotAtomic(us, id, data) ==
    IF ~EnumsValid(data)
    THEN [err |-> PrismaValidationError, users |-> us]
    ELSE IF ~UserExists(us, id)
    THEN [err |-> RecordNotFound, users |-> us]
    ELSE IF Has(data, "email") /\ EmailTaken(us, data.email, id)
    THEN [err |-> UniqueConstraintFailed, users |-> us]
    ELSE IF ~(RelationIds(data) \subseteq CourseIds)
    THEN [err |-> RelatedRecordNotFound,
          users |-> [us EXCEPT ![id] = UpdatedRow(us[id], Omit(data, {"assignedCourses"}))]]
    ELSE [err |-> NoError,
          users |-> [us EXCEPT ![id] = UpdatedRow(us[id], data)]]

\* prisma.user.update({ where: { id }, data }): one transaction.
PrismaUpdate(us, id, data) ==
    IF ~EnumsValid(data)
    THEN [err |-> PrismaValidationError, users |-> us]
    ELSE IF ~UserExists(us, id)
    THEN [err |-> RecordNotFound, users |-> us]
    ELSE IF Has(data, "email") /\ EmailTaken(us, data.email, id)
    THEN [err |-> UniqueConstraintFailed, users |-> us]
    ELSE IF ~(RelationIds(data) \subseteq CourseIds)
    THEN [err |-> RelatedRecordNotFound, users |-> us]
    ELSE [err |-> NoError,
          users |-> [us EXCEPT ![id] = UpdatedRow(us[id], data)]]

\* prisma.user.delete({ where: { id } }): the row and its join rows go.
PrismaDelete(us, id) ==
    IF ~UserExists(us, id)
    THEN [err |-> RecordNotFound, users |-> us]
    ELSE [err |-> NoError, users |-> [o \in (DOMAIN us) \ {id} |-> us[o]]]

-----------------------------------------------------------------------------
(* The request validator: class-validator over the DTO classes *)

\* Mutant of ValidUpdateDto: status without @IsEnum(UserStatus).
ValidUpdateDtoNoStatusEnum(dto) == Has(dto, "role") => dto.role \in Roles

\* @IsOptional() skips the other decorators of an absent property.
ValidUpdateDto(dto) ==
    /\ Has(dto, "role") => dto.role \in Roles
    /\ Has(dto, "status") => dto.status \in UserStatus

ValidCreateDto(dto) ==
    /\ Has(dto, "name") /\ dto.name # ""
    /\ Has(dto, "email")
    /\ Has(dto, "password") /\ dto.password # EmptyString
    /\ Has(dto, "role") => dto.role \in Roles

-----------------------------------------------------------------------------
(* UsersService: what each method computes between its store calls *)

\* Mutant of NotFoundCheck: the store's own error stands in for the service's.
NotFoundCheckStoreError(us, id) == IF UserExists(us, id) THEN NoError ELSE RecordNotFound

\* if (!exists) throw new NotFoundException(...)
NotFoundCheck(us, id) == IF UserExists(us, id) THEN NoError ELSE NotFoundException

\* Mutant of CreateData: the password is stored as given.
CreateDataPlainPassword(dto, salt) ==
    Spread(Spread(Omit(dto, {"password", "assignedCourseIds"}),
                  [password |-> dto.password]),
           IF Has(dto, "assignedCourseIds") /\ Len(dto.assignedCourseIds) # 0
           THEN [assignedCourses |-> [connect |-> Range(dto.assignedCourseIds)]]
           ELSE EmptyObject)

\* create: the data object handed to prisma.user.create.
CreateData(dto, salt) ==
    Spread(Spread(Omit(dto, {"password", "assignedCourseIds"}),
                  [password |-> BcryptHash(dto.password, salt)]),
           IF Has(dto, "assignedCourseIds") /\ Len(dto.assignedCourseIds) # 0
           THEN [assignedCourses |-> [connect |-> Range(dto.assignedCourseIds)]]
           ELSE EmptyObject)

\* update: newPassword ? await bcrypt.hash(newPassword, 10) : undefined
HashesPassword(dto) == Has(dto, "password") /\ Truthy(dto.password)

\* Mutant of UpdateData: the guard of create (assignedCourseIds?.length) is
\* used, so an empty sequence sets nothing.
UpdateDataLengthGuard(dto, salt) ==
    Spread(Spread(Spread(Omit(dto, {"password", "assignedCourseIds", "status"}),
                         IF Has(dto, "status") /\ dto.status # ""
                         THEN [status |-> dto.status]
                         ELSE EmptyObject),
                  IF HashesPassword(dto)
                  THEN [password |-> BcryptHash(dto.password, salt)]
                  ELSE EmptyObject),
           IF Has(dto, "assignedCourseIds") /\ Len(dto.assignedCourseIds) # 0
           THEN [assignedCourses |-> [set |-> Range(dto.assignedCourseIds)]]
           ELSE EmptyObject)

\* update: the data object handed to prisma.user.update.
UpdateData(dto, salt) ==
    Spread(Spread(Spread(Omit(dto, {"password", "assignedCourseIds", "status"}),
                         IF Has(dto, "status") /\ dto.status # ""
                         THEN [status |-> dto.status]
                         ELSE EmptyObject),
                  IF HashesPassword(dto)
                  THEN [password |-> BcryptHash(dto.password, salt)]
                  ELSE EmptyObject),
           IF Has(dto, "assignedCourseIds")
           THEN [assignedCourses |-> [set |-> Range(dto.assignedCourseIds)]]
           ELSE EmptyObject)

\* Mutant of UpdateStatusData: the argument is dropped for a fixed status.
UpdateStatusDataFixed(status) == [status |-> "INACTIVE"]

\* updateStatus: data: { status: status as UserStatus }.
UpdateStatusData(status) == [status |-> status]

\* findOne: the projection, or NotFoundException.
FindOneOutcome(us, id) ==
    IF NotFoundCheck(us, id) # NoError
    THEN [err |-> NotFoundCheck(us, id)]
    ELSE [err |-> NoError, value |-> Project(us[id], FindOneSelect)]

\* findByEmail: the projection with the password hash, or null.
FindByEmailOutcome(us, email) ==
    IF \E o \in DOMAIN us : us[o].email = email
    THEN [err |-> NoError, found |-> TRUE,
          value |-> Project(us[CHOOSE o \in DOMAIN us : us[o].email = email],
                            FindByEmailSelect)]
    ELSE [err |-> NoError, found |-> FALSE]

FindAllOutcome(us) ==
    [err |-> NoError, value |-> {Project(us[o], FindAllSelect) : o \in DOMAIN us}]

-----------------------------------------------------------------------------
(* getUserCourses: the nested, ordered projection *)

\* The orderings of the finite set S: the store fixes no order among rows
\* whose sort keys are equal.
Orderings(S) ==
    {p \in [1..Cardinality(S) -> S] : \A i, j \in 1..Cardinality(S) : i # j => p[i] # p[j]}

\* orderBy: { order: 'asc' }
ByOrderAsc(S) ==
    {p \in Orderings(S) : \A i \in 1..(Cardinality(S) - 1) : p[i].order <= p[i + 1].order}

\* Mutant of ByCreatedAtDesc: oldest first.
ByCreatedAtAsc(S) ==
    {p \in Orderings(S) : \A i \in 1..(Cardinality(S) - 1) : p[i].createdAt <= p[i + 1].createdAt}

\* orderBy: { createdAt: 'desc' }
ByCreatedAtDesc(S) ==
    {p \in Orderings(S) : \A i \in 1..(Cardinality(S) - 1) : p[i].createdAt >= p[i + 1].createdAt}

\* lessons: { orderBy: { order: 'asc' }, select: { id, title, duration, order } }
LessonLists(m) == ByOrderAsc(m.lessons)

\* The views the store may return for module m.
ModuleViews(m) ==
    {[id |-> m.id, title |-> m.title, order |-> m.order, lessons |-> ls] :
        ls \in LessonLists(m)}

\* modules: { orderBy: { order: 'asc' }, select: { id, title, order, lessons } }
ModuleLists(c) ==
    {vs \in [1..Cardinality(c.modules) -> UNION {ModuleViews(m) : m \in c.modules}] :
        \E p \in ByOrderAsc(c.modules) :
            \A i \in 1..Cardinality(c.modules) : vs[i] \in ModuleViews(p[i])}

CourseViews(c) ==
    {[id |-> c.id, title |-> c.title, description |-> c.description, modules |-> ms] :
        ms \in ModuleLists(c)}

\* assignedCourses: { orderBy: { createdAt: 'desc' }, select: { ... } } of
\* the user with the set cids of associated courses.
CourseLists(cids) ==
    {vs \in [1..Cardinality(cids) -> UNION {CourseViews(Catalogue[c]) : c \in cids}] :
        \E p \in ByCreatedAtDesc({Catalogue[c] : c \in cids}) :
            \A i \in 1..Cardinality(cids) : vs[i] \in CourseViews(p[i])}

\* getUserCourses: every result the call may return.
GetUserCoursesOutcomes(us, id) ==
    IF NotFoundCheck(us, id) # NoError
    THEN {[err |-> NotFoundCheck(us, id)]}
    ELSE {[err |-> NoError, value |-> vs] : vs \in CourseLists(us[id].assignedCourses)}

-----------------------------------------------------------------------------
(* State *)

VARIABLES
    users,      \* the User table: id -> row (with its associated course ids)
    nextId,     \* the next id (and creation time) the store hands out
    pending,    \* per client: the request suspended between two store calls
    last        \* the step just taken: operation, input, outcome, store before

vars == <<users, nextId, pending, last>>

UserIds == 1..MaxUsers

Idle == [op |-> "idle"]

IsIdle(c) == pending[c].op = "idle"

\* The salt of a stored hash.
SaltOf(hash) == IF Len(hash) >= 3 THEN hash[3] ELSE ""

\* bcrypt draws 128 random bits: a draw that repeats the salt already stored
\* for the user is left out.
FreshSalt(us, id, dto, salt) ==
    (HashesPassword(dto) /\ UserExists(us, id)) => salt # SaltOf(us[id].password)

\* The record of a step of client c: op, phase and the store before it.
StepOf(c, op, phase) == [op |-> op, phase |-> phase, client |-> c, before |-> users]

Init ==
    /\ users = [o \in {} |-> EmptyObject]
    /\ nextId = 1
    /\ last = [op |-> "init", phase |-> "call", client |-> "", err |-> NoError,
               before |-> [o \in {} |-> EmptyObject]]

-----------------------------------------------------------------------------
(* Operations *)

\* create(createUserDto): one store call.
Create(c, dto, salt) ==
    /\ IsIdle(c)
    /\ nextId <= MaxUsers
    /\ IF ~ValidCreateDto(dto)
       THEN /\ last' = Spread(StepOf(c, "create", "call"), [dto |-> dto, err |-> BadRequest])
            /\ UNCHANGED <<users, nextId>>
       ELSE LET r == PrismaCreate(users, nextId, CreateData(dto, salt)) IN
            /\ users' = r.users
            /\ nextId' = IF r.err = NoError THEN nextId + 1 ELSE nextId
            /\ last' = Spread(StepOf(c, "create", "call"),
                              IF r.err = NoError
                              THEN [dto |-> dto, err |-> NoError, id |-> nextId,
                                    value |-> Project(r.users[nextId], CreateSelect)]
                              ELSE [dto |-> dto, err |-> r.err])
    /\ UNCHANGED pending

\* findAll()
FindAll(c) ==
    /\ IsIdle(c)
    /\ last' = Spread(StepOf(c, "findAll", "call"), FindAllOutcome(users))
    /\ UNCHANGED <<users, nextId, pending>>

\* findOne(id)
FindOne(c, id) ==
    /\ IsIdle(c)
    /\ last' = Spread(StepOf(c, "findOne", "call"),
                      Spread([id |-> id], FindOneOutcome(users, id)))
    /\ UNCHANGED <<users, nextId, pending>>

\* findByEmail(email)
FindByEmail(c, email) ==
    /\ IsIdle(c)
    /\ last' = Spread(StepOf(c, "findByEmail", "call"),
                      Spread([email |-> email], FindByEmailOutcome(users, email)))
    /\ UNCHANGED <<users, nextId, pending>>

\* update(id, updateUserDto), first store call: findUnique, then the hash.
UpdateCheck(c, id, dto, salt) ==
    /\ IsIdle(c)
    /\ FreshSalt(users, id, dto, salt)
    /\ LET err == IF ~ValidUpdateDto(dto) THEN BadRequest ELSE NotFoundCheck(users, id) IN
       /\ last' = Spread(StepOf(c, "update", "check"), [id |-> id, dto |-> dto, err |-> err])
       /\ pending' = IF err # NoError THEN pending
                     ELSE [pending EXCEPT ![c] = [op |-> "update", id |-> id, dto |-> dto,
                                                  data |-> UpdateData(dto, salt)]]
    /\ UNCHANGED <<users, nextId>>

\* update(id, updateUserDto), second store call: prisma.user.update.
UpdateWrite(c) ==
    /\ pending[c].op = "update"
    /\ LET id == pending[c].id
           r == PrismaUpdate(users, id, pending[c].data) IN
       /\ users' = r.users
       /\ last' = Spread(StepOf(c, "update", "write"),
                         IF r.err = NoError
                         THEN [id |-> id, dto |-> pending[c].dto, data |-> pending[c].data,
                               err |-> NoError,
                               value |-> Project(r.users[id], UpdateSelect)]
                         ELSE [id |-> id, dto |-> pending[c].dto, data |-> pending[c].data,
                               err |-> r.err])
    /\ pending' = [pending EXCEPT ![c] = Idle]
    /\ UNCHANGED nextId

\* updateStatus(id, status), first store call: findUnique.
UpdateStatusCheck(c, id, status) ==
    /\ IsIdle(c)
    /\ LET err == NotFoundCheck(users, id) IN
       /\ last' = Spread(StepOf(c, "updateStatus", "check"),
                         [id |-> id, status |-> status, err |-> err])
       /\ pending' = IF err # NoError THEN pending
                     ELSE [pending EXCEPT ![c] = [op |-> "updateStatus", id |-> id,
                                                  status |-> status,
                                                  data |-> UpdateStatusData(status)]]
    /\ UNCHANGED <<users, nextId>>

\* updateStatus(id, status), second store call: prisma.user.update.
UpdateStatusWrite(c) ==
    /\ pending[c].op = "updateStatus"
    /\ LET id == pending[c].id
           r == PrismaUpdate(users, id, pending[c].data) IN
       /\ users' = r.users
       /\ last' = Spread(StepOf(c, "updateStatus", "write"),
                         IF r.err = NoError
                         THEN [id |-> id, status |-> pending[c].status,
                               data |-> pending[c].data, err |-> NoError,
                               value |-> Project(r.users[id], UpdateStatusSelect)]
                         ELSE [id |-> id, status |-> pending[c].status,
                               data |-> pending[c].data, err |-> r.err])
    /\ pending' = [pending EXCEPT ![c] = Idle]
    /\ UNCHANGED nextId

\* getUserCourses(userId)
GetUserCourses(c, id) ==
    /\ IsIdle(c)
    /\ \E out \in GetUserCoursesOutcomes(users, id) :
           last' = Spread(StepOf(c, "getUserCourses", "call"), Spread([id |-> id], out))
    /\ UNCHANGED <<users, nextId, pending>>

\* remove(id), first store call: findUnique.
RemoveCheck(c, id) ==
    /\ IsIdle(c)
    /\ LET err == NotFoundCheck(users, id) IN
       /\ last' = Spread(StepOf(c, "remove", "check"), [id |-> id, err |-> err])
       /\ pending' = IF err # NoError THEN pending
                     ELSE [pending EXCEPT ![c] = [op |-> "remove", id |-> id]]
    /\ UNCHANGED <<users, nextId>>

\* remove(id), second store call: prisma.user.delete.
RemoveWrite(c) ==
    /\ pending[c].op = "remove"
    /\ LET id == pending[c].id
           r == PrismaDelete(users, id) IN
       /\ users' = r.users
       /\ last' = Spread(StepOf(c, "remove", "write"),
                         IF r.err = NoError
                         THEN [id |-> id, err |-> NoError,
                               value |-> Project(users[id], RemoveSelect)]
                         ELSE [id |-> id, err |-> r.err])
    /\ pending' = [pending EXCEPT ![c] = Idle]
    /\ UNCHANGED nextId

Clients == DOMAIN pending

\* The operations as requests of any client, inputs drawn from the given sets.
CreateReq(dtos, salts) == \E c \in Clients, dto \in dtos, salt \in salts : Create(c, dto, salt)

FindAllReq == \E c \in Clients : FindAll(c)

FindOneReq == \E c \in Clients, id \in UserIds : FindOne(c, id)

FindByEmailReq(emails) == \E c \in Clients, email \in emails : FindByEmail(c, email)

UpdateReq(dtos, salts) ==
    \E c \in Clients, id \in UserIds, dto \in dtos, salt \in salts : UpdateCheck(c, id, dto, salt)

UpdateResume == \E c \in Clients : UpdateWrite(c)

UpdateStatusReq(statuses) ==
    \E c \in Clients, id \in UserIds, status \in statuses : UpdateStatusCheck(c, id, status)

UpdateStatusResume == \E c \in Clients : UpdateStatusWrite(c)

GetUserCoursesReq == \E c \in Clients, id \in UserIds : GetUserCourses(c, id)

RemoveReq == \E c \in Clients, id \in UserIds : RemoveCheck(c, id)

RemoveResume == \E c \in Clients : RemoveWrite(c)

-----------------------------------------------------------------------------
(* Enrollment: one client; inputs vary the name and the course ids *)

Emails == {"ann@x.com", "bob@x.com"}

Pw1 == <<"pw123">>

Pw2 == <<"hunter2">>

\* "c9" is a well-formed id of no course.
EnrollCreateDtos ==
    WithField({[name |-> "Ann", email |-> e, password |-> Pw1] : e \in Emails},
              "assignedCourseIds", {<<>>, <<"c1">>, <<"c2", "c3">>, <<"c1", "c9">>})

\* The last one changes every field and names a course that does not exist.
EnrollUpdateDtos ==
    WithField(WithField({EmptyObject}, "name", {"Bob"}),
              "assignedCourseIds", {<<>>, <<"c2", "c3">>, <<"c3", "c2", "c1">>, <<"c1", "c9">>})
    \cup {[name |-> "Bob", email |-> "cat@x.com", password |-> Pw2, role |-> "ADMIN",
           status |-> "BANNED", assignedCourseIds |-> <<"c9">>]}

InitOne == Init /\ pending = [c \in {"r1"} |-> Idle]

Next ==
    \/ CreateReq(EnrollCreateDtos, {"salt1"})
    \/ FindAllReq
    \/ FindOneReq
    \/ FindByEmailReq(Emails)
    \/ UpdateReq(EnrollUpdateDtos, {"salt2"})
    \/ UpdateResume
    \/ UpdateStatusReq({"ACTIVE"})
    \/ UpdateStatusResume
    \/ GetUserCoursesReq
    \/ RemoveReq
    \/ RemoveResume

Spec == InitOne /\ [][Next]_vars

-----------------------------------------------------------------------------
(* Properties of the enrollment specification *)

\* The ids of a DTO's assignedCourseIds (none when the key is absent).
DtoCourseIds(dto) ==
    IF Has(dto, "assignedCourseIds") THEN Range(dto.assignedCourseIds) ELSE {}

UpdateWritten == last.op = "update" /\ last.phase = "write"

UpdateApplied == UpdateWritten /\ last.err = NoError

\* C1: an update that carries assignedCourseIds (also the empty sequence)
\* leaves the user associated with exactly the given ids, and an update
\* without the key leaves the associations as they were; with ids of existing
\* courses and no e-mail collision the update is applied.
C1_AssignedCoursesSetOrUntouched ==
    /\ UpdateApplied =>
          /\ Has(last.dto, "assignedCourseIds") =>
                users[last.id].assignedCourses = Range(last.dto.assignedCourseIds)
          /\ ~Has(last.dto, "assignedCourseIds") =>
                users[last.id].assignedCourses = last.before[last.id].assignedCourses
    /\ (/\ UpdateWritten
        /\ UserExists(last.before, last.id)
        /\ DtoCourseIds(last.dto) \subseteq CourseIds
        /\ ~(Has(last.dto, "email") /\ EmailTaken(last.before, last.dto.email, last.id)))
       => last.err = NoError

\* An update with the empty sequence cleared a user's associations.
C1_Witness ==
    /\ UpdateApplied
    /\ Has(last.dto, "assignedCourseIds")
    /\ last.dto.assignedCourseIds = <<>>
    /\ last.before[last.id].assignedCourses # {}
    /\ users[last.id].assignedCourses = {}

\* C2: findOne, update, updateStatus, getUserCourses and remove called with an
\* id of no user end in NotFoundException, leave the store as it was and
\* leave no request suspended.
C2_NotFoundNoChange ==
    (/\ last.op \in {"findOne", "update", "updateStatus", "getUserCourses", "remove"}
     /\ last.phase \in {"call", "check"}
     /\ ~UserExists(last.before, last.id)
     /\ last.op = "update" => ValidUpdateDto(last.dto))
    => /\ last.err = NotFoundException
       /\ users = last.before
       /\ IsIdle(last.client)

\* remove of an id of no user failed while another user was stored.
C2_Witness ==
    /\ last.op = "remove"
    /\ last.err = NotFoundException
    /\ ~UserExists(last.before, last.id)
    /\ DOMAIN users # {}

\* C3: the value returned by create, findAll, findOne, update, updateStatus,
\* getUserCourses and remove has no password field; the value findByEmail
\* returns for a stored user has one, the stored hash.
C3_PasswordOnlyInFindByEmail ==
    /\ (last.op \in {"create", "findOne", "update", "updateStatus", "remove"} /\ Has(last, "value"))
       => ~Has(last.value, "password")
    /\ last.op = "findAll" => \A v \in last.value : ~Has(v, "password")
    /\ (last.op = "getUserCourses" /\ Has(last, "value"))
       => \A i \in 1..Len(last.value) : ~Has(last.value[i], "password")
    /\ (last.op = "findByEmail" /\ last.found)
       => /\ Has(last.value, "password")
          /\ last.value.password = users[last.value.id].password

\* update returned the projection of a user whose row holds a hash.
C3_Witness ==
    /\ UpdateApplied
    /\ Has(last, "value")
    /\ users[last.id].password = BcryptHash(Pw1, "salt1")

\* C6: getUserCourses returns exactly the user's courses, newest first, each
\* with all its modules in ascending order and each module with all its
\* lessons in ascending order.
C6_CoursesOrdered ==
    (last.op = "getUserCourses" /\ last.err = NoError) =>
        LET cs == last.value IN
        /\ Len(cs) = Cardinality(users[last.id].assignedCourses)
        /\ {cs[i].id : i \in 1..Len(cs)} = users[last.id].assignedCourses
        /\ \A i, j \in 1..Len(cs) :
              i < j => Catalogue[cs[i].id].createdAt >= Catalogue[cs[j].id].createdAt
        /\ \A i \in 1..Len(cs) :
              LET ms == cs[i].modules IN
              /\ Len(ms) = Cardinality(Catalogue[cs[i].id].modules)
              /\ {ms[k].id : k \in 1..Len(ms)} = {m.id : m \in Catalogue[cs[i].id].modules}
              /\ \A k, l \in 1..Len(ms) : k < l => ms[k].order <= ms[l].order
              /\ \A k \in 1..Len(ms) :
                    LET ls == ms[k].lessons
                        stored == UNION {m.lessons : m \in {x \in Catalogue[cs[i].id].modules : x.id = ms[k].id}}
                    IN
                    /\ Len(ls) = Cardinality(stored)
                    /\ {ls[n].id : n \in 1..Len(ls)} = {l.id : l \in stored}
                    /\ \A n, o \in 1..Len(ls) : n < o => ls[n].order <= ls[o].order

\* getUserCourses returned three courses, the middle one not the middle id.
C6_Witness ==
    /\ last.op = "getUserCourses"
    /\ last.err = NoError
    /\ Len(last.value) = 3
    /\ last.value[1].id = "c2"
    /\ last.value[3].id = "c1"
    /\ last.value[3].modules[1].id = "m2"

-----------------------------------------------------------------------------
(* Profile: one client; inputs vary the role, the e-mail and the course ids *)

\* The last two are rejected by the validator (empty name, empty password).
ProfileCreateDtos ==
    WithField(WithField({[name |-> "Ann", email |-> e, password |-> Pw1] : e \in Emails},
                        "role", {"INSTRUCTOR"}),
              "assignedCourseIds", {<<>>, <<"c1">>, <<"c3", "c2">>})
    \cup {[name |-> "", email |-> "ann@x.com", password |-> Pw1],
          [name |-> "Ann", email |-> "ann@x.com", password |-> EmptyString]}

ProfileUpdateDtos ==
    WithField(WithField({EmptyObject}, "role", {"ADMIN"}), "email", {"ann@x.com"})

NextProfile ==
    \/ CreateReq(ProfileCreateDtos, {"salt1"})
    \/ FindAllReq
    \/ FindOneReq
    \/ FindByEmailReq(Emails)
    \/ UpdateReq(ProfileUpdateDtos, {"salt2"})
    \/ UpdateResume
    \/ UpdateStatusReq({"ACTIVE"})
    \/ UpdateStatusResume
    \/ GetUserCoursesReq
    \/ RemoveReq
    \/ RemoveResume

SpecProfile == InitOne /\ [][NextProfile]_vars

CreateApplied == last.op = "create" /\ last.err = NoError

\* C5: after create of a valid input naming existing courses, findOne of the
\* new id returns the input's name, e-mail and role, exactly the named courses
\* (none when the field is absent or empty) and no password field, and the
\* stored password is the bcrypt hash of the input's, not the plaintext; such
\* a create succeeds unless the e-mail is taken.
C5_CreateThenFindOne ==
    /\ CreateApplied =>
          LET got == FindOneOutcome(users, last.id)
              dto == last.dto
              stored == users[last.id].password
          IN
          /\ got.err = NoError
          /\ got.value.id = last.id
          /\ got.value.name = dto.name
          /\ got.value.email = dto.email
          /\ Has(dto, "role") => got.value.role = dto.role
          /\ got.value.assignedCourses = {CourseRef(cid) : cid \in DtoCourseIds(dto)}
          /\ ~Has(got.value, "password")
          /\ stored # dto.password
          /\ stored = BcryptHash(dto.password, SaltOf(stored))
    /\ (/\ last.op = "create"
        /\ ValidCreateDto(last.dto)
        /\ DtoCourseIds(last.dto) \subseteq CourseIds
        /\ ~EmailTaken(last.before, last.dto.email, 0))
       => last.err = NoError

\* A second user was created with a role and two courses.
C5_Witness ==
    /\ CreateApplied
    /\ DOMAIN last.before # {}
    /\ Has(last.dto, "role")
    /\ users[last.id].assignedCourses = {"c2", "c3"}

-----------------------------------------------------------------------------
(* Status: one client; inputs vary the status and the name *)

StatusCreateDtos ==
    {[name |-> "Ann", email |-> e, password |-> Pw1, assignedCourseIds |-> <<"c1">>] :
        e \in Emails}

\* "SUSPENDED" and the empty string are no members of UserStatus.
StatusUpdateDtos ==
    WithField(WithField({EmptyObject}, "status", {"BANNED", "SUSPENDED", ""}),
              "name", {"Bob"})

StatusArguments == {"ACTIVE", "INACTIVE", "BANNED", "SUSPENDED", ""}

NextStatus ==
    \/ CreateReq(StatusCreateDtos, {"salt1"})
    \/ FindAllReq
    \/ FindOneReq
    \/ FindByEmailReq(Emails)
    \/ UpdateReq(StatusUpdateDtos, {"salt2"})
    \/ UpdateResume
    \/ UpdateStatusReq(StatusArguments)
    \/ UpdateStatusResume
    \/ GetUserCoursesReq
    \/ RemoveReq
    \/ RemoveResume

SpecStatus == InitOne /\ [][NextStatus]_vars

UpdateStatusWritten == last.op = "updateStatus" /\ last.phase = "write"

\* C4: updateStatus(id, s) of an existing user with s in the enumeration
\* succeeds; findOne(id) then shows status s and the name, e-mail, role, id,
\* createdAt and courses it showed before; the stored hash and associations
\* are unchanged and so is every other user.
C4_UpdateStatusFrame ==
    (/\ UpdateStatusWritten
     /\ UserExists(last.before, last.id)
     /\ last.status \in UserStatus)
    => /\ last.err = NoError
       /\ LET got == FindOneOutcome(users, last.id)
              was == FindOneOutcome(last.before, last.id)
          IN
          /\ got.err = NoError
          /\ got.value.status = last.status
          /\ \A f \in FindOneSelect \ {"status"} : got.value[f] = was.value[f]
       /\ users[last.id].password = last.before[last.id].password
       /\ users[last.id].assignedCourses = last.before[last.id].assignedCourses
       /\ DOMAIN users = DOMAIN last.before
       /\ \A o \in (DOMAIN users) \ {last.id} : users[o] = last.before[o]

\* A user with a course was banned while another user was stored.
C4_Witness ==
    /\ UpdateStatusWritten
    /\ last.err = NoError
    /\ last.status = "BANNED"
    /\ last.before[last.id].status = "ACTIVE"
    /\ users[last.id].status = "BANNED"
    /\ users[last.id].assignedCourses = {"c1"}
    /\ Cardinality(DOMAIN users) = 2

\* C9: every stored status is a member of the enumeration; updateStatus of an
\* existing user with a status outside it fails and changes nothing, and so
\* does update with such a status (rejected before the service runs).
C9_StatusInEnumeration ==
    /\ \A o \in DOMAIN users : users[o].status \in UserStatus
    /\ (/\ UpdateStatusWritten
        /\ UserExists(last.before, last.id)
        /\ last.status \notin UserStatus)
       => /\ last.err # NoError
          /\ users = last.before
    /\ (/\ last.op = "update"
        /\ UserExists(last.before, last.id)
        /\ Has(last.dto, "status")
        /\ last.dto.status \notin UserStatus)
       => /\ last.err # NoError
          /\ users = last.before
          /\ IsIdle(last.client)

\* updateStatus with "SUSPENDED" was refused for a stored user.
C9_Witness ==
    /\ UpdateStatusWritten
    /\ last.status = "SUSPENDED"
    /\ UserExists(last.before, last.id)
    /\ last.err = PrismaValidationError
    /\ users[last.id].status \in UserStatus

-----------------------------------------------------------------------------
(* Password: one client; inputs vary the password *)

PasswordCreateDtos == {[name |-> "Ann", email |-> e, password |-> Pw1] : e \in Emails}

\* The update DTO's password is any string, the empty one included.
PasswordUpdateDtos == WithField({EmptyObject}, "password", {EmptyString, Pw1, Pw2})

NextPassword ==
    \/ CreateReq(PasswordCreateDtos, {"salt1"})
    \/ FindAllReq
    \/ FindOneReq
    \/ FindByEmailReq(Emails)
    \/ UpdateReq(PasswordUpdateDtos, {"salt1", "salt2"})
    \/ UpdateResume
    \/ UpdateStatusReq({"INACTIVE"})
    \/ UpdateStatusResume
    \/ GetUserCoursesReq
    \/ RemoveReq
    \/ RemoveResume

SpecPassword == InitOne /\ [][NextPassword]_vars

\* C8: after an applied update whose DTO has a password (any string, also the
\* empty one) the stored password is the bcrypt hash of that password and not
\* the hash stored before; without a password in the DTO the stored hash is
\* unchanged; no stored password is a plaintext.
C8_PasswordRehashed ==
    /\ (UpdateApplied /\ Has(last.dto, "password"))
       => /\ users[last.id].password
                = BcryptHash(last.dto.password, SaltOf(users[last.id].password))
          /\ users[last.id].password # last.before[last.id].password
    /\ (UpdateApplied /\ ~Has(last.dto, "password"))
       => users[last.id].password = last.before[last.id].password
    /\ \A o \in DOMAIN users : users[o].password \notin {EmptyString, Pw1, Pw2}

-----------------------------------------------------------------------------
(* Race: two clients, whose store calls interleave *)

RaceCreateDtos ==
    {[name |-> "Ann", email |-> "ann@x.com", password |-> Pw1, assignedCourseIds |-> <<"c1">>]}

RaceUpdateDtos == {[name |-> "Bob", assignedCourseIds |-> <<>>]}

InitTwo == Init /\ pending = [c \in {"r1", "r2"} |-> Idle]

NextRace ==
    \/ CreateReq(RaceCreateDtos, {"salt1"})
    \/ FindAllReq
    \/ FindOneReq
    \/ FindByEmailReq({"ann@x.com"})
    \/ UpdateReq(RaceUpdateDtos, {"salt2"})
    \/ UpdateResume
    \/ UpdateStatusReq({"BANNED"})
    \/ UpdateStatusResume
    \/ GetUserCoursesReq
    \/ RemoveReq
    \/ RemoveResume

SpecRace == InitTwo /\ [][NextRace]_vars

\* The row of the target and nothing else changed, by the data handed to the
\* store.
WroteInFull ==
    /\ DOMAIN users = DOMAIN last.before
    /\ users[last.id] = UpdatedRow(last.before[last.id], last.data)
    /\ \A o \in (DOMAIN users) \ {last.id} : users[o] = last.before[o]

\* C10: the second store call of update or updateStatus either applies the
\* whole input to the still-stored user or fails and writes nothing; when the
\* user was deleted since the existence check, the call fails with
\* NotFoundException and the user stays deleted.
C10_RaceReportsNotFound ==
    (UpdateWritten \/ UpdateStatusWritten) =>
        /\ last.err = NoError => (UserExists(last.before, last.id) /\ WroteInFull)
        /\ last.err # NoError => users = last.before
        /\ ~UserExists(last.before, last.id)
              => /\ last.err = NotFoundException
                 /\ ~UserExists(users, last.id)

\* What the code does in that race: the same, with the store's own error.
RaceSurfacesStoreError ==
    (UpdateWritten \/ UpdateStatusWritten) =>
        /\ last.err = NoError => (UserExists(last.before, last.id) /\ WroteInFull)
        /\ last.err # NoError => users = last.before
        /\ ~UserExists(last.before, last.id)
              => /\ last.err = RecordNotFound
                 /\ ~UserExists(users, last.id)

====
